---- MODULE Spec2Model ----
(***************************************************************************)
(* Model of dwave_networkx/drawing/zephyr_layout.py: the Zephyr coordinate *)
(* mapper (zephyr_node_placer_2d and its closure _xy_coords), the layout   *)
(* builder (zephyr_layout) and the three drawing wrappers.                 *)
(*                                                                         *)
(* Numbers.  The code computes in floating point; the model computes the   *)
(* same expressions exactly, on rationals <<n, d>> in lowest terms, d > 0.   *)
(* The literals .625, .125 and .5 are the eighths 5/8, 1/8 and 4/8.        *)
(*                                                                         *)
(* Nodes.  A coordinate label is the 5-tuple <<u, w, k, j, z>>; an integer *)
(* label r is written <<r>>, so that every node is a tuple.                *)
(***************************************************************************)
EXTENDS Integers, Sequences, FiniteSets, TLC

\* ------------------------------------------------------------------ bounds
MaxRows == 2
MaxTile == 2
MaxDim == 3
MaxScale == 1

\* --------------------------------------------------- exact real arithmetic
RECURSIVE GCD(_, _)
GCD(a, b) == IF b = 0 THEN a ELSE GCD(b, a % b)
Abs(n) == IF n < 0 THEN -n ELSE n
\* The fraction n/d (d > 0) in lowest terms: one value per real number.
Rat(n, d) == LET g == GCD(Abs(n), d) IN <<n \div g, d \div g>>
RatInt(n) == <<n, 1>>
RatAdd(a, b) == Rat(a[1] * b[2] + b[1] * a[2], a[2] * b[2])
RatMul(a, b) == Rat(a[1] * b[1], a[2] * b[2])
RatNeg(a) == <<-a[1], a[2]>>
RatDivInt(a, n) == Rat(a[1], a[2] * n)
RatLeq(a, b) == a[1] * b[2] <= b[1] * a[2]

\* ------------------------------------------- the lattice and its generator
Lattice(m, t) ==
    {<<u, w, k, j, z>> : u \in 0..1, w \in 0..(2 * m), k \in 0..(t - 1),
                         j \in 0..1, z \in 0..(m - 1)}

zephyr_to_linear(m, t, q) ==
    (((q[1] * (2 * m + 1) + q[2]) * t + q[3]) * 2 + q[4]) * m + q[5]

linear_to_zephyr(m, t, r) ==
    LET z  == r % m
        r1 == r \div m
        j  == r1 % 2
        r2 == r1 \div 2
        k  == r2 % t
        r3 == r2 \div t
    IN  <<r3 \div (2 * m + 1), r3 % (2 * m + 1), k, j, z>>

\* zephyr_graph(m, t, coordinates=..., data=...): the graph attributes it
\* sets, and what it was built from (its nodes and node data follow from
\* that, see Nodes and NodeHasZephyrIndex).
zephyr_graph(m, t, coordinates, data) ==
    [isGraph |-> TRUE,
     graph   |-> [family  |-> "zephyr",
                  rows    |-> m,
                  columns |-> m,
                  tile    |-> t,
                  data    |-> data,
                  labels  |-> IF coordinates THEN "coordinate" ELSE "int"],
     built   |-> [m |-> m, t |-> t, coordinates |-> coordinates, data |-> data],
     faulty  |-> FALSE]

\* An object that is not a networkx graph.
NonGraph ==
    [isGraph |-> FALSE,
     graph   |-> [a \in {} |-> 0],
     built   |-> [m |-> 1, t |-> 1, coordinates |-> FALSE, data |-> FALSE],
     faulty  |-> FALSE]

FirstNode == <<0, 0, 0, 0, 0>>

\* G.nodes(): the lattice the graph was built on, less the removed node of a
\* faulty (sub)graph, under the labels the generator gave them.
Nodes(G_) ==
    LET L    == Lattice(G_.built.m, G_.built.t)
        kept == IF G_.faulty THEN L \ {FirstNode} ELSE L
    IN  IF G_.built.coordinates
        THEN kept
        ELSE {<<zephyr_to_linear(G_.built.m, G_.built.t, q)>> : q \in kept}

\* Node data: the generator attaches 'zephyr_index' to integer-labelled nodes
\* (and 'linear_index' to coordinate-labelled ones) when data is set.
NodeHasZephyrIndex(G_) == G_.built.data /\ ~G_.built.coordinates
NodeZephyrIndex(G_, v) == linear_to_zephyr(G_.built.m, G_.built.t, v[1])

\* ------------------------------------------------------ graph attribute dict
HasAttr(G_, a) == a \in DOMAIN G_.graph
AttrIs(G_, a, val) == HasAttr(G_, a) /\ G_.graph[a] = val
Truthy(G_, a) == HasAttr(G_, a) /\ G_.graph[a] = TRUE
DelAttrs(G_, S) ==
    [G_ EXCEPT !.graph = [a \in (DOMAIN G_.graph) \ S |-> G_.graph[a]]]
SetFamily(G_, fam) ==
    IF fam = "absent" THEN DelAttrs(G_, {"family"})
    ELSE [G_ EXCEPT !.graph = [a \in DOMAIN G_.graph |->
                                 IF a = "family" THEN fam ELSE G_.graph[a]]]

\* ------------------------------------------------------------ input domains
Rows == 1..MaxRows
Tiles == 1..MaxTile
Dims == 0..MaxDim
Scales == {RatInt(s) : s \in (-1)..MaxScale}
NoCenter == [given |-> FALSE, v |-> <<>>]
Centers ==
    {NoCenter} \cup
    {[given |-> TRUE, v |-> [i \in 1..n |-> RatInt(i)]] : n \in 2..MaxDim}
Families == {"zephyr", "chimera", "absent"}
YieldAttrs == {"rows", "columns", "tile", "labels"}
MissingSets == {{}} \cup {{a} : a \in YieldAttrs}

BuiltGraphs ==
    {zephyr_graph(m, t, c, d) : m \in Rows, t \in Tiles,
                                c \in BOOLEAN, d \in BOOLEAN}
\* The graphs a caller may hold: not a graph at all; a generated graph; a
\* generated graph with one node removed; a generated graph whose family tag
\* was changed or deleted and/or one of whose attributes was deleted.
Graphs ==
    {NonGraph} \cup
    {[B EXCEPT !.faulty = TRUE] : B \in BuiltGraphs} \cup
    {DelAttrs(SetFamily(B, fam), miss) :
        B \in BuiltGraphs, fam \in Families, miss \in MissingSets}
\* The mapper reads only rows and tile: it is exercised on the generator's
\* coordinate-labelled graphs, intact or with one of the two deleted.
PlacerGraphs ==
    {g \in Graphs : /\ g.isGraph
                    /\ ~g.faulty
                    /\ g.built.coordinates
                    /\ ~g.built.data
                    /\ AttrIs(g, "family", "zephyr")
                    /\ HasAttr(g, "columns")
                    /\ HasAttr(g, "labels")}

\* ------------------------------------------------------------ the mapper
NoPlacer ==
    [err |-> "none", tile_width |-> 1, scale |-> RatInt(0),
     center |-> <<>>, paddims |-> 0]
PlacerRaise(e) == [NoPlacer EXCEPT !.err = e]

zeros(n) == [i \in 1..n |-> RatInt(0)]

\* Mutant: the test of line 128 written paddims <= 0.
placer_rejects_two_dims(G_, scale_, center_, dim_) ==
    IF ~HasAttr(G_, "rows") \/ ~HasAttr(G_, "tile")
    THEN PlacerRaise("TypeError")
    ELSE LET cen == IF center_.given THEN center_.v ELSE zeros(dim_)
         IN  IF dim_ - 2 <= 0 THEN PlacerRaise("DimTooSmall")
             ELSE IF Len(cen) # dim_ THEN PlacerRaise("CenterLength")
             ELSE [err |-> "none", tile_width |-> G_.graph["tile"],
                   scale |-> RatDivInt(scale_,
                                       G_.graph["rows"] * G_.graph["tile"]),
                   center |-> cen, paddims |-> dim_ - 2]

\* Mutant: line 120 written scale /= tile_width.
placer_scales_by_tile_only(G_, scale_, center_, dim_) ==
    IF ~HasAttr(G_, "rows") \/ ~HasAttr(G_, "tile")
    THEN PlacerRaise("TypeError")
    ELSE LET cen == IF center_.given THEN center_.v ELSE zeros(dim_)
         IN  IF dim_ - 2 < 0 THEN PlacerRaise("DimTooSmall")
             ELSE IF Len(cen) # dim_ THEN PlacerRaise("CenterLength")
             ELSE [err |-> "none", tile_width |-> G_.graph["tile"],
                   scale |-> RatDivInt(scale_, G_.graph["tile"]),
                   center |-> cen, paddims |-> dim_ - 2]

\* zephyr_node_placer_2d(G, scale, center, dim): the closure it returns, or
\* the error it raises.
zephyr_node_placer_2d(G_, scale_, center_, dim_) ==
    IF ~HasAttr(G_, "rows") \/ ~HasAttr(G_, "tile")
    THEN PlacerRaise("TypeError")
    ELSE LET m          == G_.graph["rows"]
             tile_width == G_.graph["tile"]
             sc         == RatDivInt(scale_, m * tile_width)
             cen        == IF center_.given THEN center_.v ELSE zeros(dim_)
             paddims    == dim_ - 2
         IN  IF paddims < 0 THEN PlacerRaise("DimTooSmall")
             ELSE IF Len(cen) # dim_ THEN PlacerRaise("CenterLength")
             ELSE [err |-> "none", tile_width |-> tile_width, scale |-> sc,
                   center |-> cen, paddims |-> paddims]

\* Line 136: W = 2*tile_width*w + 2*k + .625*j + .125, in eighths.
W_of(p, q) == Rat(8 * (2 * p.tile_width * q[2] + 2 * q[3]) + 5 * q[4] + 1, 8)
\* Line 137: Z = (2*z+j+1)*2*tile_width - .5, in eighths.
Z_of(p, q) == Rat(8 * ((2 * q[5] + q[4] + 1) * 2 * p.tile_width) - 4, 8)

\* Mutant: the branches of line 139 exchanged.
base_xy_swapped(p, q) ==
    IF q[1] # 0 THEN <<Z_of(p, q), RatNeg(W_of(p, q))>>
                ELSE <<W_of(p, q), RatNeg(Z_of(p, q))>>
\* Mutant: line 142 written np.array([Z, W]).
base_xy_unsigned(p, q) ==
    IF q[1] # 0 THEN <<W_of(p, q), RatNeg(Z_of(p, q))>>
                ELSE <<Z_of(p, q), W_of(p, q)>>
\* Mutant: the orientation u ignored.
base_xy_one_orientation(p, q) == <<W_of(p, q), RatNeg(Z_of(p, q))>>

\* Lines 139-142: the base point by the orientation u.
base_xy(p, q) ==
    IF q[1] # 0 THEN <<W_of(p, q), RatNeg(Z_of(p, q))>>
                ELSE <<Z_of(p, q), RatNeg(W_of(p, q))>>

\* _xy_coords(u, w, k, j, z) of the closure p, q = <<u, w, k, j, z>>.
xy_coords(p, q) ==
    LET xy     == base_xy(p, q)
        scaled == [i \in 1..2 |-> RatMul(xy[i], p.scale)]
        padded == scaled \o zeros(p.paddims)
    IN  [i \in 1..Len(padded) |-> RatAdd(padded[i], p.center[i])]

\* ------------------------------------------------------- the layout builder
Raise(e) == [err |-> e, pos |-> <<>>]
Return(f) == [err |-> "none", pos |-> f]

\* Mutant: the data flag tested before the labelling mode.
resolve_positions_data_first(G_, p) ==
    IF Truthy(G_, "data")
    THEN IF NodeHasZephyrIndex(G_)
         THEN Return([v \in Nodes(G_) |-> xy_coords(p, NodeZephyrIndex(G_, v))])
         ELSE Raise("KeyError")
    ELSE IF AttrIs(G_, "labels", "coordinate")
    THEN IF G_.built.coordinates
         THEN Return([v \in Nodes(G_) |-> xy_coords(p, v)])
         ELSE Raise("NodeTypeError")
    ELSE IF G_.built.coordinates
         THEN Raise("NodeTypeError")
         ELSE Return([v \in Nodes(G_) |->
                  xy_coords(p, linear_to_zephyr(G_.graph["rows"],
                                                G_.graph["tile"], v[1]))])

\* Lines 74-82: the position map over G.nodes() by the labelling of G.
\* NodeTypeError: a 5-tuple label handed to linear_to_zephyr, or an integer
\* label unpacked as an index; KeyError: a node without 'zephyr_index'.
resolve_positions(G_, p) ==
    IF AttrIs(G_, "labels", "coordinate")
    THEN IF G_.built.coordinates
         THEN Return([v \in Nodes(G_) |-> xy_coords(p, v)])
         ELSE Raise("NodeTypeError")
    ELSE IF Truthy(G_, "data")
    THEN IF NodeHasZephyrIndex(G_)
         THEN Return([v \in Nodes(G_) |-> xy_coords(p, NodeZephyrIndex(G_, v))])
         ELSE Raise("KeyError")
    ELSE IF G_.built.coordinates
         THEN Raise("NodeTypeError")
         ELSE Return([v \in Nodes(G_) |->
                  xy_coords(p, linear_to_zephyr(G_.graph["rows"],
                                                G_.graph["tile"], v[1]))])

\* Mutant: the mapper constructed before the family is checked.
zephyr_layout_family_last(G_, scale_, center_, dim_) ==
    LET p == zephyr_node_placer_2d(G_, scale_, center_, dim_)
    IN  IF p.err # "none" THEN Raise(p.err)
        ELSE IF ~G_.isGraph \/ ~AttrIs(G_, "family", "zephyr")
        THEN Raise("NotZephyr")
        ELSE resolve_positions(G_, p)

\* zephyr_layout(G, scale, center, dim): the position map it returns, or the
\* error it raises.
zephyr_layout(G_, scale_, center_, dim_) ==
    IF ~G_.isGraph \/ ~AttrIs(G_, "family", "zephyr")
    THEN Raise("NotZephyr")
    ELSE LET p == zephyr_node_placer_2d(G_, scale_, center_, dim_)
         IN  IF p.err # "none" THEN Raise(p.err)
             ELSE resolve_positions(G_, p)

\* ------------------------------------------------------------------- state
\* op: the entry point called; pc: where the call stands; G: the graph the
\* caller holds; scale, center, dim: the arguments of the call; placer: the
\* closure zephyr_node_placer_2d returned; idx, point: the closure's last
\* argument and result; pos: the position map built; err: the error raised;
\* perfect_graph: draw_zephyr_yield's reference graph (its local);
\* drawn: the invocations of the external drawers, in order.
VARIABLES op, pc, G, scale, center, dim, placer, idx, point, pos, err,
          perfect_graph, drawn

vars == <<op, pc, G, scale, center, dim, placer, idx, point, pos, err,
          perfect_graph, drawn>>

Init ==
    /\ op = "none"
    /\ pc = "idle"
    /\ G \in Graphs
    /\ scale = RatInt(1)
    /\ center = NoCenter
    /\ dim = 2
    /\ placer = NoPlacer
    /\ idx = FirstNode
    /\ point = <<>>
    /\ pos = <<>>
    /\ err = "none"
    /\ perfect_graph = NonGraph
    /\ drawn = <<>>

\* A call of zephyr_layout(G, scale, center, dim).
ZephyrLayout ==
    /\ pc = "idle"
    /\ \E s \in Scales, c \in Centers, d \in Dims :
          LET r == zephyr_layout(G, s, c, d)
          IN  /\ scale' = s /\ center' = c /\ dim' = d
              /\ err' = r.err
              /\ pos' = r.pos
              /\ pc' = IF r.err = "none" THEN "returned" ELSE "raised"
    /\ op' = "zephyr_layout"
    /\ UNCHANGED <<G, placer, idx, point, perfect_graph, drawn>>

\* A call of zephyr_node_placer_2d(G, scale, center, dim).
NodePlacer ==
    /\ pc = "idle"
    /\ G \in PlacerGraphs
    /\ \E s \in Scales, c \in Centers, d \in Dims :
          LET p == zephyr_node_placer_2d(G, s, c, d)
          IN  /\ scale' = s /\ center' = c /\ dim' = d
              /\ placer' = p
              /\ err' = p.err
              /\ pc' = IF p.err = "none" THEN "placer_ready" ELSE "raised"
    /\ op' = "zephyr_node_placer_2d"
    /\ UNCHANGED <<G, idx, point, pos, perfect_graph, drawn>>

\* A call of the returned closure on a lattice index.
XYCoords ==
    /\ pc = "placer_ready"
    /\ \E q \in Lattice(G.graph["rows"], G.graph["tile"]) :
          /\ idx' = q
          /\ point' = xy_coords(placer, q)
    /\ pc' = "xy_done"
    /\ UNCHANGED <<op, G, scale, center, dim, placer, pos, err,
                   perfect_graph, drawn>>

\* ------------------------------------------------------ the drawing wrappers
\* Mutant: the drawer called whether or not the layout raised.
after_layout_always_draws(r, draw_pc) == draw_pc

\* Where a wrapper goes once zephyr_layout has returned or raised: Python
\* evaluates the arguments of the drawer's call before the call.
after_layout(r, draw_pc) == IF r.err = "none" THEN draw_pc ELSE "raised"

\* The layout argument of a wrapper's drawer call: zephyr_layout(g) with the
\* default scale, center and dim.
LayoutStep(g, draw_pc) ==
    LET r == zephyr_layout(g, RatInt(1), NoCenter, 2)
    IN  /\ err' = r.err
        /\ pos' = r.pos
        /\ pc' = after_layout(r, draw_pc)

\* The external drawer is invoked with the graph and the position map.
DrawStep(name, from_pc) ==
    /\ pc = from_pc
    /\ drawn' = Append(drawn, [fn |-> name, G |-> G, pos |-> pos,
                               ref |-> perfect_graph])
    /\ pc' = "returned"
    /\ UNCHANGED <<op, G, scale, center, dim, placer, idx, point, pos, err,
                   perfect_graph>>

\* draw_zephyr(G): draw_qubit_graph(G, zephyr_layout(G), **kwargs)
DrawZephyr_Layout ==
    /\ pc = "idle"
    /\ op' = "draw_zephyr"
    /\ LayoutStep(G, "dz_draw")
    /\ UNCHANGED <<G, scale, center, dim, placer, idx, point,
                   perfect_graph, drawn>>

DrawZephyr_Draw == DrawStep("draw_qubit_graph", "dz_draw")

\* draw_zephyr_embedding(G, ...): draw_embedding(G, zephyr_layout(G), ...)
DrawZephyrEmbedding_Layout ==
    /\ pc = "idle"
    /\ op' = "draw_zephyr_embedding"
    /\ LayoutStep(G, "de_draw")
    /\ UNCHANGED <<G, scale, center, dim, placer, idx, point,
                   perfect_graph, drawn>>

DrawZephyrEmbedding_Draw == DrawStep("draw_embedding", "de_draw")

\* draw_zephyr_yield, lines 271-279: the try block passes when the family is
\* "zephyr" and columns, tile and labels can be read; anything raised in it
\* (a missing key, a failed assert, an object with no .graph) is turned into
\* the ValueError of line 278.
yield_attrs_ok(G_) ==
    /\ G_.isGraph
    /\ AttrIs(G_, "family", "zephyr")
    /\ HasAttr(G_, "columns")
    /\ HasAttr(G_, "tile")
    /\ HasAttr(G_, "labels")

DrawZephyrYield_Attrs ==
    /\ pc = "idle"
    /\ op' = "draw_zephyr_yield"
    /\ IF yield_attrs_ok(G)
       THEN /\ pc' = "dy_perfect"
            /\ err' = "none"
       ELSE /\ pc' = "raised"
            /\ err' = "YieldAttrs"
    /\ UNCHANGED <<G, scale, center, dim, placer, idx, point, pos,
                   perfect_graph, drawn>>

\* Line 282: perfect_graph = zephyr_graph(m, t, coordinates=coordinates),
\* with m = G.graph['columns'], t = G.graph['tile'] and data defaulted.
DrawZephyrYield_Perfect ==
    /\ pc = "dy_perfect"
    /\ perfect_graph' = zephyr_graph(G.graph["columns"], G.graph["tile"],
                                     G.graph["labels"] = "coordinate", TRUE)
    /\ pc' = "dy_layout"
    /\ UNCHANGED <<op, G, scale, center, dim, placer, idx, point, pos, err,
                   drawn>>

\* Line 284: draw_yield(G, zephyr_layout(perfect_graph), perfect_graph, ...)
DrawZephyrYield_Layout ==
    /\ pc = "dy_layout"
    /\ LayoutStep(perfect_graph, "dy_draw")
    /\ UNCHANGED <<op, G, scale, center, dim, placer, idx, point,
                   perfect_graph, drawn>>

DrawZephyrYield_Draw == DrawStep("draw_yield", "dy_draw")

Next ==
    \/ ZephyrLayout
    \/ NodePlacer
    \/ XYCoords
    \/ DrawZephyr_Layout
    \/ DrawZephyr_Draw
    \/ DrawZephyrEmbedding_Layout
    \/ DrawZephyrEmbedding_Draw
    \/ DrawZephyrYield_Attrs
    \/ DrawZephyrYield_Perfect
    \/ DrawZephyrYield_Layout
    \/ DrawZephyrYield_Draw

Spec == Init /\ [][Next]_vars

\* ------------------------------------------------------------------ claims
\* The real number the rational r stands for is n/d.
RatIs(r, n, d) == r[1] * d = n * r[2]

m_of(G_) == G_.graph["rows"]
t_of(G_) == G_.graph["tile"]
\* The center of the call: the origin when unset.
C_of(i) == IF center.given THEN center.v[i] ELSE RatInt(0)
\* 8*W and 8*Z of the claim, as integers.
W8(t, q) == 16 * t * q[2] + 16 * q[3] + 5 * q[4] + 1
Z8(t, q) == (2 * q[5] + q[4] + 1) * 16 * t - 4
\* C + (s/(m*t)) * (e8/8), with every value scaled by 8*m*t.
Shifted(c, s, m, t, e8) ==
    <<(c[1] * s[2] * 8 * m * t) + (s[1] * e8 * c[2]), c[2] * s[2] * 8 * m * t>>

\* C1: the returned function yields exactly the point whose first two
\* coordinates are C[0] + (s/(m*t))*W, C[1] - (s/(m*t))*Z when u is 1 and
\* C[0] + (s/(m*t))*Z, C[1] - (s/(m*t))*W when u is 0, and whose remaining
\* dim-2 coordinates are those of C.
C1_MapperFormula ==
    pc = "xy_done" =>
        LET m  == m_of(G)
            t  == t_of(G)
            ex == IF idx[1] = 1 THEN W8(t, idx) ELSE Z8(t, idx)
            ey == IF idx[1] = 1 THEN -Z8(t, idx) ELSE -W8(t, idx)
            X  == Shifted(C_of(1), scale, m, t, ex)
            Y  == Shifted(C_of(2), scale, m, t, ey)
        IN  /\ Len(point) = dim
            /\ RatIs(point[1], X[1], X[2])
            /\ RatIs(point[2], Y[1], Y[2])
            /\ \A i \in 3..dim : point[i] = C_of(i)

C1_Witness ==
    /\ pc = "xy_done"
    /\ idx[1] = 0 /\ idx[4] = 1 /\ idx[2] > 0
    /\ dim = 3 /\ center.given
    /\ scale = RatInt(-1)
    /\ m_of(G) = 2 /\ t_of(G) = 2

\* The index the layout resolves for node v, by the three strategies in
\* their priority order.
ResolvedIndex(G_, v) ==
    IF AttrIs(G_, "labels", "coordinate") THEN v
    ELSE IF Truthy(G_, "data") THEN NodeZephyrIndex(G_, v)
    ELSE linear_to_zephyr(m_of(G_), t_of(G_), v[1])
\* The graph declares rows and tile width, and each node carries what the
\* strategy selected for the graph reads: a 5-tuple label, a 'zephyr_index'
\* attribute, or an integer label.
WellFormed(G_) ==
    /\ G_.isGraph
    /\ HasAttr(G_, "rows") /\ HasAttr(G_, "tile")
    /\ IF AttrIs(G_, "labels", "coordinate") THEN G_.built.coordinates
       ELSE IF Truthy(G_, "data") THEN NodeHasZephyrIndex(G_)
       ELSE ~G_.built.coordinates
ValidArgs == dim >= 2 /\ (center.given => Len(center.v) = dim)

\* What C2 says of a call of zephyr_layout that has been made: a position
\* map is returned whose keys are exactly the nodes of G, each mapped to the
\* mapper's point for the index resolved by: the node itself when the labels
\* are 'coordinate' (even with the data flag set), else the node's
\* 'zephyr_index' when the data flag is set, else the linear-to-lattice
\* conversion of the integer label.
C2_Returned ==
    /\ pc = "returned"
    /\ err = "none"
    /\ DOMAIN pos = Nodes(G)
    /\ LET p == zephyr_node_placer_2d(G, scale, center, dim)
       IN  \A v \in Nodes(G) : pos[v] = xy_coords(p, ResolvedIndex(G, v))

\* C2 as stated: for every Zephyr-tagged graph and valid scale/center/dim,
\* zephyr_layout returns the position map described above.
C2_AsStated ==
    (/\ op = "zephyr_layout" /\ pc # "idle"
     /\ G.isGraph /\ AttrIs(G, "family", "zephyr")
     /\ ValidArgs)
    => C2_Returned

\* C2 amended: for every Zephyr-tagged graph that declares rows and tile
\* width and whose nodes carry the index the selected strategy reads, and
\* valid scale/center/dim, zephyr_layout returns the position map described
\* above.
C2_LayoutCoversNodes ==
    (/\ op = "zephyr_layout" /\ pc # "idle"
     /\ G.isGraph /\ AttrIs(G, "family", "zephyr")
     /\ WellFormed(G) /\ ValidArgs)
    => C2_Returned

C2_Witness ==
    /\ op = "zephyr_layout" /\ pc = "returned"
    /\ AttrIs(G, "labels", "coordinate") /\ Truthy(G, "data")
    /\ m_of(G) = 2 /\ dim = 3
    /\ Cardinality(DOMAIN pos) = Cardinality(Lattice(2, t_of(G)))

\* C3: for rows >= 1 and tile width >= 1 the construction of the mapper
\* fails with a configuration error iff dim < 2 or a center is supplied whose
\* length differs from dim; dim 0 and 1 always fail; dim 2 with center unset
\* or of length 2 succeeds with no padding; an unset center never fails for
\* dim >= 2.
C3_PlacerFailsIff ==
    (/\ op = "zephyr_node_placer_2d" /\ pc # "idle"
     /\ HasAttr(G, "rows") /\ HasAttr(G, "tile"))
    => /\ (err \in {"DimTooSmall", "CenterLength"})
             <=> (dim < 2 \/ (center.given /\ Len(center.v) # dim))
       /\ err \in {"none", "DimTooSmall", "CenterLength"}
       /\ (pc = "raised") <=> (err # "none")
       /\ dim \in {0, 1} => err # "none"
       /\ (dim = 2 /\ (~center.given \/ Len(center.v) = 2))
             => (err = "none" /\ placer.paddims = 0)
       /\ (dim >= 2 /\ ~center.given) => err = "none"

C3_Witness ==
    /\ op = "zephyr_node_placer_2d" /\ pc = "raised"
    /\ dim = 3 /\ center.given /\ Len(center.v) = 2
    /\ err = "CenterLength"

\* C4: for every graph whose family tag is absent or not 'zephyr', and for
\* every input that is not a graph, zephyr_layout raises the validation error
\* and returns no position map, whatever scale, center and dim are and
\* whatever else the graph lacks.
C4_FamilyCheckedFirst ==
    (/\ op = "zephyr_layout" /\ pc # "idle"
     /\ (~G.isGraph \/ ~AttrIs(G, "family", "zephyr")))
    => /\ pc = "raised"
       /\ err = "NotZephyr"
       /\ pos = <<>>

C4_Witness ==
    /\ op = "zephyr_layout" /\ pc = "raised" /\ err = "NotZephyr"
    /\ AttrIs(G, "family", "chimera")
    /\ ~HasAttr(G, "rows")
    /\ dim = 0 /\ center.given

\* C5: draw_zephyr_yield fails with a configuration error, before the
\* reference graph is constructed or the yield drawer invoked, for every
\* graph in which rows, columns, tile or labels is absent.
C5_YieldNeedsAllFour ==
    (/\ op = "draw_zephyr_yield" /\ pc # "idle"
     /\ G.isGraph
     /\ \E a \in YieldAttrs : ~HasAttr(G, a))
    => /\ pc = "raised"
       /\ err = "YieldAttrs"
       /\ perfect_graph = NonGraph
       /\ drawn = <<>>

\* C6: with scale 1, dim 2 and the default center, every lattice index is
\* mapped to a point with x in [0, 1] and y in [-1, 0].
C6_UnitBox ==
    (/\ pc = "xy_done"
     /\ scale = RatInt(1) /\ dim = 2 /\ ~center.given)
    => /\ RatLeq(RatInt(0), point[1]) /\ RatLeq(point[1], RatInt(1))
       /\ RatLeq(RatInt(-1), point[2]) /\ RatLeq(point[2], RatInt(0))

OtherOrientation(q) == <<0, q[2], q[3], q[4], q[5]>>

\* C7 as stated: with dim 2 and the center at the origin, if index
\* (1, w, k, j, z) is sent to (a, b) then (0, w, k, j, z) is sent to (b, -a).
C7_OrientationAsStated ==
    (/\ pc = "xy_done" /\ dim = 2 /\ ~center.given /\ idx[1] = 1)
    => xy_coords(placer, OtherOrientation(idx)) = <<point[2], RatNeg(point[1])>>

\* C7 amended: with dim 2 and the center at the origin, if index
\* (1, w, k, j, z) is sent to (a, b) then (0, w, k, j, z) is sent to (-b, -a).
C7_OrientationAmended ==
    (/\ pc = "xy_done" /\ dim = 2 /\ ~center.given /\ idx[1] = 1)
    => xy_coords(placer, OtherOrientation(idx))
          = <<RatNeg(point[2]), RatNeg(point[1])>>

C7_Witness ==
    /\ pc = "xy_done" /\ dim = 2 /\ ~center.given /\ idx[1] = 1
    /\ scale = RatInt(-1)
    /\ idx[4] = 1 /\ idx[5] = 1

CornerNode == <<1, 0, 0, 0, 0>>
C8_Case ==
    /\ op = "zephyr_layout" /\ pc = "returned"
    /\ AttrIs(G, "rows", 2)
    /\ AttrIs(G, "labels", "coordinate")
    /\ scale = RatInt(1) /\ dim = 2 /\ ~center.given
    /\ CornerNode \in DOMAIN pos

\* C8 as stated: for a coordinate-labelled graph with rows = 2 and tile
\* width t, zephyr_layout with scale 1, dim 2 and the default center maps
\* node (1, 0, 0, 0, 0) to (0.125/(2*t), -0.125/(2*t)).
C8_CornerAsStated ==
    C8_Case => /\ RatIs(pos[CornerNode][1], 1, 16 * t_of(G))
               /\ RatIs(pos[CornerNode][2], -1, 16 * t_of(G))

\* C8 amended: ... maps node (1, 0, 0, 0, 0) to
\* (0.125/(2*t), -(2*t - 0.5)/(2*t)).
C8_CornerAmended ==
    C8_Case => /\ RatIs(pos[CornerNode][1], 1, 16 * t_of(G))
               /\ RatIs(pos[CornerNode][2], -(16 * t_of(G) - 4), 16 * t_of(G))

C8_Witness == C8_Case /\ t_of(G) = 2 /\ ~G.faulty

DrawOps == {"draw_zephyr", "draw_zephyr_embedding", "draw_zephyr_yield"}
\* The graph a wrapper lays out.
LaidOut == IF op = "draw_zephyr_yield" THEN perfect_graph ELSE G

\* C9: in every execution of the three wrappers the external drawer is
\* invoked at most once, and only with the complete position map of a layout
\* that succeeded; when validation or layout construction raises, the error
\* reaches the caller and the drawer is never invoked.
C9_DrawAfterLayout ==
    /\ Len(drawn) <= 1
    /\ drawn # <<>> =>
          /\ op \in DrawOps /\ pc = "returned" /\ err = "none"
          /\ drawn[1].pos = pos
          /\ DOMAIN drawn[1].pos = Nodes(LaidOut)
          /\ zephyr_layout(LaidOut, RatInt(1), NoCenter, 2) = Return(pos)
    /\ err # "none" => (pc = "raised" /\ drawn = <<>>)
    /\ (/\ op \in {"draw_zephyr", "draw_zephyr_embedding"} /\ pc # "idle"
        /\ zephyr_layout(G, RatInt(1), NoCenter, 2).err # "none")
       => (/\ pc = "raised" /\ drawn = <<>>
           /\ err = zephyr_layout(G, RatInt(1), NoCenter, 2).err)
    /\ (op = "draw_zephyr_yield" /\ pc # "idle" /\ ~yield_attrs_ok(G))
       => (pc = "raised" /\ err = "YieldAttrs" /\ drawn = <<>>)

C9_Witness ==
    /\ op = "draw_zephyr_yield" /\ drawn # <<>>
    /\ G.faulty /\ G.built.m = 2
    /\ drawn[1].fn = "draw_yield"

\* C10: for nonzero scale and any center, no two distinct lattice indices
\* are mapped to the same point.
C10_Injective ==
    (pc = "placer_ready" /\ scale # RatInt(0))
    => LET L == Lattice(m_of(G), t_of(G))
       IN  Cardinality({xy_coords(placer, q) : q \in L}) = Cardinality(L)

C10_Witness ==
    /\ pc = "placer_ready" /\ scale = RatInt(-1)
    /\ m_of(G) = 2 /\ t_of(G) = 2 /\ center.given /\ dim = 3
====
